---------------------------- MODULE Spec2Model ----------------------------
(***************************************************************************)
(* A model of the Prisoner's Dilemma tournament (src/main.rs): the game    *)
(* engine (PrisonerDilemmaGame, Player, the strategies) and main's         *)
(* fan-out of N x N games over a ThreadPool with an mpsc result channel.   *)
(*                                                                         *)
(* Spec      the tournament run by main(): submit, worker jobs, collect,   *)
(*           print.  One worker step is one play_round of its game.        *)
(* FairSpec  Spec with weakly fair scheduling of main and of the workers.  *)
(* GameSpec  one PrisonerDilemmaGame driven as the unit tests drive it,    *)
(*           with play_round split into its statements.                    *)
(***************************************************************************)
EXTENDS Integers, Sequences, FiniteSets

VARIABLES
    strategies,   \* main: Vec<Arc<dyn Strategy>>, a sequence of strategy kinds
    iterations,   \* main: iterations (i32)
    num_threads,  \* main: num_threads
    pcMain,       \* main's position: "submit", "collect", "print", "done"
    submitted,    \* number of pool.execute calls made by the nested loops
    queue,        \* the pool's job queue: closures [id, s1, s2], oldest first
    threads,      \* live worker threads of the pool
    running,      \* jobs being executed: [id, s1, s2, k, game]
    panicked,     \* the jobs [id, s1, s2] that unwound with a panic
    channel,      \* results sent on tx and not yet received
    scores,       \* main: scores, in order of receipt
    stdout,       \* the lines printed so far
    game,         \* GameSpec: the PrisonerDilemmaGame under test
    frame         \* GameSpec: position and locals of play / play_round

vars == <<strategies, iterations, num_threads, pcMain, submitted, queue,
          threads, running, panicked, channel, scores, stdout, game, frame>>

inputVars == <<strategies, iterations, num_threads>>

gameVars == <<game, frame>>

tournamentVars == <<pcMain, submitted, queue, threads, running, panicked,
                    channel, scores, stdout>>

(***************************************************************************)
(* Bounds of the model.                                                    *)
(***************************************************************************)
MaxStrategies == 2
MaxIterations == 1
MaxThreads == 2

(***************************************************************************)
(* Moves, payoffs and strategies.                                          *)
(***************************************************************************)
Cooperate == "Cooperate"
Defect == "Defect"
Move == {Cooperate, Defect}

\* The outcome of a strategy call that unwinds instead of returning a Move.
Panic == "panic"

I32Max == 2147483647

\* Mutant of calculate_payoff: the sucker's payoff and the temptation
\* payoff go to the wrong players.
calculate_payoff_Crossed(m1, m2) ==
    CASE m1 = Cooperate /\ m2 = Cooperate -> <<2, 2>>
      [] m1 = Cooperate /\ m2 = Defect    -> <<3, 0>>
      [] m1 = Defect    /\ m2 = Cooperate -> <<0, 3>>
      [] m1 = Defect    /\ m2 = Defect    -> <<1, 1>>

calculate_payoff(m1, m2) ==
    CASE m1 = Cooperate /\ m2 = Cooperate -> <<2, 2>>
      [] m1 = Cooperate /\ m2 = Defect    -> <<0, 3>>
      [] m1 = Defect    /\ m2 = Cooperate -> <<3, 0>>
      [] m1 = Defect    /\ m2 = Defect    -> <<1, 1>>

\* A round is [Move; 2]: slot inx of the source is position inx + 1 here.
Slot(round, inx) == round[inx + 1]

opponent_inx(inx) == IF inx = 1 THEN 0 ELSE 1

AlwaysCooperate_play(hist, inx) == {Cooperate}

AlwaysDefect_play(hist, inx) == {Defect}

\* Mutant of TitForTat_play: the opponent's move is read from the first
\* round instead of the most recent one.
TitForTat_play_FirstRound(hist, inx) ==
    IF Len(hist) > 0
    THEN {Slot(hist[1], opponent_inx(inx))}
    ELSE {Cooperate}

\* Mutant of TitForTat_play: the last round is read at the player's own
\* slot instead of the opponent's.
TitForTat_play_OwnSlot(hist, inx) ==
    IF Len(hist) > 0
    THEN {Slot(hist[Len(hist)], inx)}
    ELSE {Cooperate}

TitForTat_play(hist, inx) ==
    IF Len(hist) > 0
    THEN {Slot(hist[Len(hist)], opponent_inx(inx))}
    ELSE {Cooperate}

\* thread_rng().gen_bool(0.5): either move.
Random_play(hist, inx) == {Cooperate, Defect}

\* Mutant of TwoTitsForTat_play: one defection in the last two rounds is
\* enough (|| for &&).
TwoTitsForTat_play_EitherRound(hist, inx) ==
    IF Len(hist) >= 2
    THEN LET round1 == hist[Len(hist)]
             round2 == hist[Len(hist) - 1]
         IN  IF Slot(round1, opponent_inx(inx)) = Defect
                \/ Slot(round2, opponent_inx(inx)) = Defect
             THEN {Defect}
             ELSE {Cooperate}
    ELSE {Cooperate}

TwoTitsForTat_play(hist, inx) ==
    IF Len(hist) >= 2
    THEN LET round1 == hist[Len(hist)]
             round2 == hist[Len(hist) - 1]
         IN  IF Slot(round1, opponent_inx(inx)) = Defect
                /\ Slot(round2, opponent_inx(inx)) = Defect
             THEN {Defect}
             ELSE {Cooperate}
    ELSE {Cooperate}

\* Strategy is an open trait whose play returns Move, not a Result: an
\* implementor can fail only by panicking.  Faulty is such an implementor;
\* each call either returns Cooperate or panics.
Faulty_play(hist, inx) == {Cooperate, Panic}

BuiltinKinds ==
    {"AlwaysCooperate", "AlwaysDefect", "TitForTat", "Random", "TwoTitsForTat"}

Kinds == BuiltinKinds \cup {"Faulty"}

\* dyn Strategy dispatch: the set of outcomes of strategy.play(hist, inx).
Strategy_play(kind, hist, inx) ==
    CASE kind = "AlwaysCooperate" -> AlwaysCooperate_play(hist, inx)
      [] kind = "AlwaysDefect"    -> AlwaysDefect_play(hist, inx)
      [] kind = "TitForTat"       -> TitForTat_play(hist, inx)
      [] kind = "Random"          -> Random_play(hist, inx)
      [] kind = "TwoTitsForTat"   -> TwoTitsForTat_play(hist, inx)
      [] kind = "Faulty"          -> Faulty_play(hist, inx)

Strategy_name(kind) ==
    CASE kind = "AlwaysCooperate" -> "Always Cooperate"
      [] kind = "AlwaysDefect"    -> "Always Defect"
      [] kind = "TitForTat"       -> "TitForTat"
      [] kind = "Random"          -> "Random"
      [] kind = "TwoTitsForTat"   -> "TwoTitsForTat"
      [] kind = "Faulty"          -> "Faulty"

(***************************************************************************)
(* Player and PrisonerDilemmaGame.  A Player's strategy is an Arc clone of *)
(* one element of main's list: it is modelled by that element's index.     *)
(***************************************************************************)
Player_new(strat) == [score |-> 0, strategy |-> strat]

Player_play(p, hist, hist_inx) ==
    Strategy_play(strategies[p.strategy], hist, hist_inx)

\* self.score += p on an i32 (two's complement wrap-around past I32Max).
Player_pay(p, amount) ==
    [p EXCEPT !.score =
        IF p.score > I32Max - amount
        THEN (p.score - I32Max - 1) + (amount - I32Max - 1)
        ELSE p.score + amount]

Game_new(p1, p2, iters) ==
    [p1 |-> p1, p2 |-> p2, iterations |-> iters, history |-> <<>>]

\* The game after one play_round in which the strategies returned m1, m2.
RoundResult(g, m1, m2) ==
    LET pay == calculate_payoff(m1, m2)
    IN  [g EXCEPT !.p1 = Player_pay(g.p1, pay[1]),
                  !.p2 = Player_pay(g.p2, pay[2]),
                  !.history = Append(g.history, <<m1, m2>>)]

\* play_round, whole: the games it can end in (both strategies returned).
play_round(g) ==
    { RoundResult(g, m1, m2) :
        m1 \in Player_play(g.p1, g.history, 0) \ {Panic},
        m2 \in Player_play(g.p2, g.history, 1) \ {Panic} }

\* play_round unwinds when p1.play panics, or p1.play returns and p2.play
\* panics.
play_round_panics(g) ==
    \/ Panic \in Player_play(g.p1, g.history, 0)
    \/ /\ Player_play(g.p1, g.history, 0) \ {Panic} # {}
       /\ Panic \in Player_play(g.p2, g.history, 1)

(***************************************************************************)
(* main: the tournament.                                                   *)
(***************************************************************************)
N == Len(strategies)

\* Mutant of Pairing: the inner loop's clone is taken from s1 again, so
\* every closure captures (s1, s1).
Pairing_InnerFromOuter(n) ==
    [id |-> n, s1 |-> ((n - 1) \div N) + 1, s2 |-> ((n - 1) \div N) + 1]

\* The nested loops over strategies.iter(): the closure of submission n
\* (from 1) captures clones of s1 (outer loop) and s2 (inner loop).
Pairing(n) ==
    [id |-> n, s1 |-> ((n - 1) \div N) + 1, s2 |-> ((n - 1) % N) + 1]

NumPairings == N * N

\* Mutants of NumResults: the collection loop runs one time too few, or
\* one time too many.
NumResults_OneLess == Len(strategies) * Len(strategies) - 1

NumResults_OneMore == Len(strategies) * Len(strategies) + 1

\* The bound of the collection loop: strategies.len() * strategies.len().
NumResults == Len(strategies) * Len(strategies)

\* Mutant of PoolSize: one thread per game, as in "spawn a new thread to
\* run the game".
PoolSize_PerGame == Len(strategies) * Len(strategies)

\* ThreadPool::new(num_threads): the number of worker threads.
PoolSize == num_threads

\* Mutant of ThreadsAfterPanic: the panicking worker thread is lost.
ThreadsAfterPanic_NoRespawn(n) == n - 1

\* A worker thread whose job panics is replaced by the pool (the thread's
\* sentinel spawns a new worker as it unwinds): the thread count is kept.
ThreadsAfterPanic(n) == n

\* Mutant of Job_game: the history is shared between the games instead of
\* being created per game: a new game starts on the history of a game that
\* is being played.
Job_game_SharedHistory(job) ==
    [p1 |-> Player_new(job.s1), p2 |-> Player_new(job.s2),
     iterations |-> iterations,
     history |-> IF running = {}
                 THEN <<>>
                 ELSE (CHOOSE r \in running :
                         \A o \in running : Len(o.game.history) <= Len(r.game.history)
                      ).game.history]

\* The game a job builds from its captured s1, s2.
Job_game(job) ==
    Game_new(Player_new(job.s1), Player_new(job.s2), iterations)

\* Mutant of Job_result: each player is sent with the other player's score.
Job_result_ScoresCrossed(g) ==
    <<[g.p1 EXCEPT !.score = g.p2.score], [g.p2 EXCEPT !.score = g.p1.score]>>

\* The tuple a job sends: (game.p1, game.p2).
Job_result(g) == <<g.p1, g.p2>>

\* Senders alive: main's tx (held until main returns) and one clone for
\* every job submitted and neither finished nor unwound.
Senders ==
    (IF pcMain = "done" THEN 0 ELSE 1) + Len(queue) + Cardinality(running)

NoGame == [none |-> TRUE]
NoFrame == [pc |-> "none"]

StrategyLists ==
    UNION { [1..n -> Kinds] : n \in 1..MaxStrategies }

IterationCounts == (0 - 1)..MaxIterations

Init ==
    /\ strategies \in StrategyLists
    /\ iterations \in IterationCounts
    /\ num_threads \in 1..MaxThreads
    /\ pcMain = "submit"
    /\ submitted = 0
    /\ queue = <<>>
    /\ threads = PoolSize
    /\ running = {}
    /\ panicked = {}
    /\ channel = <<>>
    /\ scores = <<>>
    /\ stdout = <<>>
    /\ game = NoGame
    /\ frame = NoFrame

\* pool.execute(closure): the job is queued; it never blocks.
Submit ==
    /\ pcMain = "submit"
    /\ submitted < NumPairings
    /\ queue' = Append(queue, Pairing(submitted + 1))
    /\ submitted' = submitted + 1
    /\ UNCHANGED <<pcMain, threads, running, panicked, channel, scores, stdout>>
    /\ UNCHANGED <<inputVars, gameVars>>

SubmitDone ==
    /\ pcMain = "submit"
    /\ submitted >= NumPairings
    /\ pcMain' = "collect"
    /\ UNCHANGED <<submitted, queue, threads, running, panicked, channel,
                   scores, stdout>>
    /\ UNCHANGED <<inputVars, gameVars>>

\* Mutant of Recv: a non-blocking receive: on an empty channel main stops
\* collecting and goes on to print and return.
Recv_StopsWhenEmpty ==
    /\ pcMain = "collect"
    /\ Len(scores) < NumResults
    /\ IF channel # <<>>
       THEN /\ scores' = Append(scores, Head(channel))
            /\ channel' = Tail(channel)
            /\ pcMain' = pcMain
       ELSE /\ pcMain' = "print"
            /\ UNCHANGED <<scores, channel>>
    /\ UNCHANGED <<submitted, queue, threads, running, panicked, stdout>>
    /\ UNCHANGED <<inputVars, gameVars>>

\* rx.recv().unwrap(); scores.push(..): blocks while the channel is empty
\* and a sender is alive.
Recv ==
    /\ pcMain = "collect"
    /\ Len(scores) < NumResults
    /\ IF channel # <<>>
       THEN /\ scores' = Append(scores, Head(channel))
            /\ channel' = Tail(channel)
            /\ pcMain' = pcMain
       ELSE /\ Senders = 0
            /\ pcMain' = "panicked"
            /\ UNCHANGED <<scores, channel>>
    /\ UNCHANGED <<submitted, queue, threads, running, panicked, stdout>>
    /\ UNCHANGED <<inputVars, gameVars>>

CollectDone ==
    /\ pcMain = "collect"
    /\ Len(scores) >= NumResults
    /\ pcMain' = "print"
    /\ UNCHANGED <<submitted, queue, threads, running, panicked, channel,
                   scores, stdout>>
    /\ UNCHANGED <<inputVars, gameVars>>

\* One println! of the loop over scores.
Line(r) ==
    <<Strategy_name(strategies[r[1].strategy]),
      Strategy_name(strategies[r[2].strategy]),
      r[1].score, r[2].score>>

PrintLine ==
    /\ pcMain = "print"
    /\ Len(stdout) < Len(scores)
    /\ stdout' = Append(stdout, Line(scores[Len(stdout) + 1]))
    /\ UNCHANGED <<pcMain, submitted, queue, threads, running, panicked,
                   channel, scores>>
    /\ UNCHANGED <<inputVars, gameVars>>

PrintDone ==
    /\ pcMain = "print"
    /\ Len(stdout) >= Len(scores)
    /\ pcMain' = "done"
    /\ UNCHANGED <<submitted, queue, threads, running, panicked, channel,
                   scores, stdout>>
    /\ UNCHANGED <<inputVars, gameVars>>

Main == Submit \/ SubmitDone \/ Recv \/ CollectDone \/ PrintLine \/ PrintDone

(***************************************************************************)
(* The pool's workers.                                                     *)
(***************************************************************************)
\* An idle worker thread takes the oldest queued job and builds its game.
JobStart ==
    /\ queue # <<>>
    /\ Cardinality(running) < threads
    /\ running' = running \cup
          {[id |-> Head(queue).id, s1 |-> Head(queue).s1,
            s2 |-> Head(queue).s2, k |-> 0, game |-> Job_game(Head(queue))]}
    /\ queue' = Tail(queue)
    /\ UNCHANGED <<pcMain, submitted, threads, panicked, channel, scores,
                   stdout>>
    /\ UNCHANGED <<inputVars, gameVars>>

\* Mutant of JobRound: the history is one vector shared by the games in
\* play: the round is pushed to every executing game's history.
JobRound_SharedHistory(j) ==
    /\ j.k < j.game.iterations
    /\ \E g \in play_round(j.game) :
          running' =
             { IF o = j
               THEN [j EXCEPT !.k = j.k + 1, !.game = g]
               ELSE [o EXCEPT !.game.history =
                        Append(@, g.history[Len(g.history)])] : o \in running }
    /\ UNCHANGED <<pcMain, submitted, queue, threads, panicked, channel,
                   scores, stdout>>
    /\ UNCHANGED <<inputVars, gameVars>>

\* One iteration of play()'s loop in which both strategies return.
JobRound(j) ==
    /\ j.k < j.game.iterations
    /\ \E g \in play_round(j.game) :
          running' = (running \ {j}) \cup {[j EXCEPT !.k = j.k + 1, !.game = g]}
    /\ UNCHANGED <<pcMain, submitted, queue, threads, panicked, channel,
                   scores, stdout>>
    /\ UNCHANGED <<inputVars, gameVars>>

\* One iteration of play()'s loop in which a strategy panics: the job
\* unwinds, nothing is sent, its tx clone is dropped.
JobPanic(j) ==
    /\ j.k < j.game.iterations
    /\ play_round_panics(j.game)
    /\ running' = running \ {j}
    /\ panicked' = panicked \cup {[id |-> j.id, s1 |-> j.s1, s2 |-> j.s2]}
    /\ threads' = ThreadsAfterPanic(threads)
    /\ UNCHANGED <<pcMain, submitted, queue, channel, scores, stdout>>
    /\ UNCHANGED <<inputVars, gameVars>>

\* Mutant of JobSend: the tuple is sent without waiting for play() to
\* return, whatever number of rounds has been played.
JobSend_Early(j) ==
    /\ running' = running \ {j}
    /\ channel' = Append(channel, Job_result(j.game))
    /\ UNCHANGED <<panicked, threads>>
    /\ UNCHANGED <<pcMain, submitted, queue, scores, stdout>>
    /\ UNCHANGED <<inputVars, gameVars>>

\* play() has returned: tx.send((game.p1, game.p2)).unwrap().  The send
\* fails, and the job panics, only when rx has been dropped.
JobSend(j) ==
    /\ j.k >= j.game.iterations
    /\ running' = running \ {j}
    /\ IF pcMain \notin {"done", "panicked"}
       THEN /\ channel' = Append(channel, Job_result(j.game))
            /\ UNCHANGED <<panicked, threads>>
       ELSE /\ panicked' = panicked \cup {[id |-> j.id, s1 |-> j.s1, s2 |-> j.s2]}
            /\ threads' = ThreadsAfterPanic(threads)
            /\ UNCHANGED channel
    /\ UNCHANGED <<pcMain, submitted, queue, scores, stdout>>
    /\ UNCHANGED <<inputVars, gameVars>>

Workers ==
    \/ JobStart
    \/ \E j \in running : JobRound(j)
    \/ \E j \in running : JobPanic(j)
    \/ \E j \in running : JobSend(j)

Next ==
    \/ Submit
    \/ SubmitDone
    \/ Recv
    \/ CollectDone
    \/ PrintLine
    \/ PrintDone
    \/ JobStart
    \/ \E j \in running : JobRound(j)
    \/ \E j \in running : JobPanic(j)
    \/ \E j \in running : JobSend(j)

Spec == Init /\ [][Next]_vars

\* The operating system schedules main and the worker threads fairly.
FairSpec == Spec /\ WF_vars(Main) /\ WF_vars(Workers)

(***************************************************************************)
(* One game, statement by statement: PrisonerDilemmaGame::new, then play() *)
(* with play_round split at each of its statements.                        *)
(***************************************************************************)
MaxRounds == 3

RoundCounts == (0 - 1)..MaxRounds

\* Mutant of HistoryArg: slot 1 decides after seeing slot 0's move of the
\* current round.
HistoryArg_SeesCurrentMove(g, fr, inx) ==
    IF inx = 1 THEN Append(g.history, <<fr.m1, Cooperate>>) ELSE g.history

\* The history each strategy is handed in play_round: &self.history.
HistoryArg(g, fr, inx) == g.history

NewFrame ==
    [pc |-> "loop", k |-> 0, m1 |-> "none", m2 |-> "none",
     p1_pay |-> 0, p2_pay |-> 0, hist0 |-> <<>>, hist1 |-> <<>>,
     calls0 |-> 0, calls1 |-> 0]

GameInit ==
    /\ strategies \in [1..2 -> Kinds]
    /\ iterations \in RoundCounts
    /\ num_threads = 1
    /\ pcMain = "test"
    /\ submitted = 0
    /\ queue = <<>>
    /\ threads = 0
    /\ running = {}
    /\ panicked = {}
    /\ channel = <<>>
    /\ scores = <<>>
    /\ stdout = <<>>
    /\ game = Game_new(Player_new(1), Player_new(2), iterations)
    /\ frame = NewFrame

\* Mutant of PlayLoop: the range is taken inclusive (0..=iterations).
PlayLoop_Inclusive ==
    /\ frame.pc = "loop"
    /\ frame.k <= game.iterations
    /\ frame' = [frame EXCEPT !.pc = "m1"]
    /\ UNCHANGED <<game, inputVars, tournamentVars>>

\* for _ in 0..self.iterations: enter the body
PlayLoop ==
    /\ frame.pc = "loop"
    /\ frame.k < game.iterations
    /\ frame' = [frame EXCEPT !.pc = "m1"]
    /\ UNCHANGED <<game, inputVars, tournamentVars>>

\* for _ in 0..self.iterations: the range is exhausted, play() returns
PlayReturn ==
    /\ frame.pc = "loop"
    /\ frame.k >= game.iterations
    /\ frame' = [frame EXCEPT !.pc = "returned"]
    /\ UNCHANGED <<game, inputVars, tournamentVars>>

\* let m1 = self.p1.play(&self.history, 0);
RoundM1 ==
    /\ frame.pc = "m1"
    /\ \E r \in Player_play(game.p1, HistoryArg(game, frame, 0), 0) :
          frame' = [frame EXCEPT
                      !.pc = IF r = Panic THEN "panicked" ELSE "m2",
                      !.m1 = r,
                      !.hist0 = HistoryArg(game, frame, 0),
                      !.calls0 = frame.calls0 + 1]
    /\ UNCHANGED <<game, inputVars, tournamentVars>>

\* let m2 = self.p2.play(&self.history, 1);
RoundM2 ==
    /\ frame.pc = "m2"
    /\ \E r \in Player_play(game.p2, HistoryArg(game, frame, 1), 1) :
          frame' = [frame EXCEPT
                      !.pc = IF r = Panic THEN "panicked" ELSE "payoff",
                      !.m2 = r,
                      !.hist1 = HistoryArg(game, frame, 1),
                      !.calls1 = frame.calls1 + 1]
    /\ UNCHANGED <<game, inputVars, tournamentVars>>

\* let (p1_pay, p2_pay) = Self::calculate_payoff(&m1, &m2);
RoundPayoff ==
    /\ frame.pc = "payoff"
    /\ frame' = [frame EXCEPT
                   !.pc = "pay1",
                   !.p1_pay = calculate_payoff(frame.m1, frame.m2)[1],
                   !.p2_pay = calculate_payoff(frame.m1, frame.m2)[2]]
    /\ UNCHANGED <<game, inputVars, tournamentVars>>

\* self.p1.pay(p1_pay);
RoundPay1 ==
    /\ frame.pc = "pay1"
    /\ game' = [game EXCEPT !.p1 = Player_pay(game.p1, frame.p1_pay)]
    /\ frame' = [frame EXCEPT !.pc = "pay2"]
    /\ UNCHANGED <<inputVars, tournamentVars>>

\* self.p2.pay(p2_pay);
RoundPay2 ==
    /\ frame.pc = "pay2"
    /\ game' = [game EXCEPT !.p2 = Player_pay(game.p2, frame.p2_pay)]
    /\ frame' = [frame EXCEPT !.pc = "push"]
    /\ UNCHANGED <<inputVars, tournamentVars>>

\* self.history.push([m1, m2]); and the next iteration of play()'s loop
RoundPush ==
    /\ frame.pc = "push"
    /\ game' = [game EXCEPT !.history = Append(game.history, <<frame.m1, frame.m2>>)]
    /\ frame' = [frame EXCEPT !.pc = "loop", !.k = frame.k + 1]
    /\ UNCHANGED <<inputVars, tournamentVars>>

GameNext ==
    \/ PlayLoop
    \/ PlayReturn
    \/ RoundM1
    \/ RoundM2
    \/ RoundPayoff
    \/ RoundPay1
    \/ RoundPay2
    \/ RoundPush

GameSpec == GameInit /\ [][GameNext]_vars

(***************************************************************************)
(* Reference results: the game of section 4.1 played sequentially, outside *)
(* any worker.  FinalScores(a, b, n) is the set of score pairs n rounds of *)
(* strategy kind a (slot 0) against kind b (slot 1) can end with.          *)
(***************************************************************************)
RECURSIVE GamesAfter(_, _, _, _)
GamesAfter(a, b, n, S) ==
    IF n <= 0
    THEN S
    ELSE GamesAfter(a, b, n - 1,
           UNION { { [h  |-> Append(g.h, <<m1, m2>>),
                      s1 |-> g.s1 + calculate_payoff(m1, m2)[1],
                      s2 |-> g.s2 + calculate_payoff(m1, m2)[2]] :
                       m1 \in Strategy_play(a, g.h, 0) \ {Panic},
                       m2 \in Strategy_play(b, g.h, 1) \ {Panic} } : g \in S })

FinalScores(a, b, n) ==
    { <<g.s1, g.s2>> : g \in GamesAfter(a, b, n, {[h |-> <<>>, s1 |-> 0, s2 |-> 0]}) }

Range(seq) == { seq[k] : k \in 1..Len(seq) }

\* The entries of a sequence of result tuples that belong to index pair (i, j).
EntriesFor(seq, i, j) ==
    { k \in 1..Len(seq) : seq[k][1].strategy = i /\ seq[k][2].strategy = j }

Finished == pcMain \in {"print", "done"}

Quiescent == ~ ENABLED Next

NoFaulty == \A i \in 1..N : strategies[i] # "Faulty"

Deterministic == \A i \in 1..N : strategies[i] \notin {"Random", "Faulty"}

(***************************************************************************)
(* C1  When the collection loop has finished, scores holds exactly N * N   *)
(* entries, exactly one for every index pair (i, j) of the strategy list.  *)
(***************************************************************************)
C1_ExactlyOncePerPairing ==
    Finished =>
        /\ Len(scores) = N * N
        /\ \A i \in 1..N : \A j \in 1..N :
              Cardinality(EntriesFor(scores, i, j)) = 1

C1_Witness ==
    /\ pcMain = "done"
    /\ N = 2
    /\ strategies[1] = strategies[2]
    /\ num_threads = 2
    /\ iterations = 1
    /\ scores[1][1].strategy = 1 /\ scores[1][2].strategy = 2

(***************************************************************************)
(* C2  If one pairing's simulation fails, the scheduler does not deadlock: *)
(* in every state with a failed job, the run has reached its end or some   *)
(* step of main or of a worker is still possible.                          *)
(***************************************************************************)
C2_NoDeadlockAfterFailure ==
    panicked # {} => (pcMain = "done" \/ ENABLED Next)

(***************************************************************************)
(* C3  When a pairing's simulation fails, the final result set holds an    *)
(* entry for that pairing (marked as failed): once the run is at rest,     *)
(* every failed pairing has an entry in scores.                            *)
(***************************************************************************)
C3_FailedPairingReported ==
    Quiescent =>
        \A f \in panicked : EntriesFor(scores, f.s1, f.s2) # {}

(***************************************************************************)
(* C4  When exactly one pairing's simulation fails, main does not crash    *)
(* and every other pairing's result is eventually computed, sent and       *)
(* collected: each of the other N * N - 1 index pairs gets its one entry   *)
(* in scores.                                                              *)
(***************************************************************************)
OthersCollected ==
    /\ pcMain # "panicked"
    /\ Len(scores) = N * N - Cardinality(panicked)
    /\ \A n \in 1..NumPairings :
          Pairing(n) \notin panicked =>
              Cardinality(EntriesFor(scores, Pairing(n).s1, Pairing(n).s2)) = 1

\* C4: once exactly one job has failed, the others end up collected.
C4_OthersStillCollected ==
    (Cardinality(panicked) = 1) ~> (Cardinality(panicked) # 1 \/ OthersCollected)

C4_Witness ==
    /\ Cardinality(panicked) = 1
    /\ N = 2
    /\ num_threads = 1
    /\ Len(scores) = 3
    /\ \E f \in panicked : f.id = 1

C6_EventuallyReported ==
    NoFaulty =>
        <>(/\ pcMain = "done"
           /\ Len(scores) = N * N
           /\ Len(stdout) = N * N
           /\ queue = <<>> /\ running = {} /\ channel = <<>>)

C6_Witness ==
    /\ NoFaulty
    /\ pcMain = "done"
    /\ num_threads = 1
    /\ N = 2
    /\ iterations = 1
    /\ Len(stdout) = 4

(***************************************************************************)
(* C7  Every result tuple is attributed to its originating pairing: the    *)
(* tuple a job sends carries the job's s1 as first player, its s2 as       *)
(* second player and the scores of that job's game; every tuple in the     *)
(* channel or in scores carries a score pair of the game of its own two    *)
(* strategies; every printed line is the names and scores of one tuple.    *)
(***************************************************************************)
TupleOfOwnGame(r) ==
    /\ r[1].strategy \in 1..N
    /\ r[2].strategy \in 1..N
    /\ <<r[1].score, r[2].score>> \in
          FinalScores(strategies[r[1].strategy], strategies[r[2].strategy],
                      iterations)

C7_Tuples ==
    /\ \A j \in running :
          j.game.p1.strategy = j.s1 /\ j.game.p2.strategy = j.s2
    /\ \A r \in Range(channel) \cup Range(scores) : TupleOfOwnGame(r)
    /\ \A k \in 1..Len(stdout) :
          stdout[k] = <<Strategy_name(strategies[scores[k][1].strategy]),
                        Strategy_name(strategies[scores[k][2].strategy]),
                        scores[k][1].score, scores[k][2].score>>

\* A step in which job j leaves the pool and the channel grows is j's send.
C7_Send ==
    \A j \in running :
        (Len(channel') = Len(channel) + 1 /\ \A o \in running' : o.id # j.id) =>
            LET r == channel'[Len(channel')]
            IN  /\ r[1].strategy = j.s1 /\ r[1].score = j.game.p1.score
                /\ r[2].strategy = j.s2 /\ r[2].score = j.game.p2.score

\* C7: every tuple, every send and every printed line is of one pairing.
C7_Attributed == [] C7_Tuples /\ [][C7_Send]_vars

C7_Witness ==
    /\ N = 2
    /\ strategies = <<"AlwaysCooperate", "AlwaysDefect">>
    /\ iterations = 1
    /\ Len(stdout) = 4
    /\ scores[1][1].strategy = 1 /\ scores[1][2].strategy = 2
    /\ stdout[1] = <<"Always Cooperate", "Always Defect", 0, 3>>

(***************************************************************************)
(* C8  Nothing is printed and main does not return while a pairing is      *)
(* still unsubmitted, queued, executing or uncollected in the channel.     *)
(***************************************************************************)
C8_ReportOnlyWhenComplete ==
    (Finished \/ stdout # <<>>) =>
        /\ submitted = N * N
        /\ queue = <<>>
        /\ running = {}
        /\ channel = <<>>
        /\ Len(scores) = N * N

C8_Witness ==
    /\ pcMain = "print"
    /\ N = 2
    /\ num_threads = 2
    /\ Len(stdout) = 1

(***************************************************************************)
(* C9  For a list of deterministic strategies the set of collected         *)
(* (pairing, scoreA, scoreB) results is a function of the strategy list    *)
(* and the iteration count alone: it is the same for every worker count    *)
(* and every interleaving, whatever the order of collection.               *)
(***************************************************************************)
ResultSet ==
    { <<r[1].strategy, r[2].strategy, r[1].score, r[2].score>> :
        r \in Range(scores) }

ExpectedResultSet ==
    UNION { { <<i, j, sc[1], sc[2]>> :
                sc \in FinalScores(strategies[i], strategies[j], iterations) } :
            i \in 1..N, j \in 1..N }

\* C9: the collected set is the sequentially computed one.
C9_ScheduleIndependent ==
    (Finished /\ Deterministic) => ResultSet = ExpectedResultSet

C9_Witness ==
    /\ pcMain = "done"
    /\ strategies = <<"AlwaysDefect", "TitForTat">>
    /\ iterations = 1
    /\ num_threads = 2
    /\ scores[1][1].strategy = 1 /\ scores[1][2].strategy = 2
    /\ ResultSet = {<<1, 1, 1, 1>>, <<1, 2, 3, 0>>, <<2, 1, 0, 3>>, <<2, 2, 2, 2>>}

(***************************************************************************)
(* C10  In every round both moves are decided from the same pre-round      *)
(* history: the history handed to slot 1 is the one handed to slot 0 and   *)
(* holds only the rounds before the current one; the round is appended     *)
(* only after both moves are chosen and both payoffs are added.            *)
(***************************************************************************)
RECURSIVE HistoryScore(_, _)
HistoryScore(h, inx) ==
    IF h = <<>>
    THEN 0
    ELSE HistoryScore(SubSeq(h, 1, Len(h) - 1), inx)
           + calculate_payoff(h[Len(h)][1], h[Len(h)][2])[inx + 1]

\* C10: same pre-round history for both slots, push after both pays.
C10_SamePreRoundHistory ==
    /\ frame.pc \in {"m1", "m2", "payoff", "pay1", "pay2", "push"} =>
          Len(game.history) = frame.k
    /\ frame.pc \in {"m2", "payoff", "pay1", "pay2", "push"} =>
          frame.hist0 = game.history
    /\ frame.pc \in {"payoff", "pay1", "pay2", "push"} =>
          frame.hist1 = frame.hist0
    /\ frame.pc = "push" =>
          /\ frame.m1 \in Move /\ frame.m2 \in Move
          /\ game.p1.score = HistoryScore(game.history, 0)
                               + calculate_payoff(frame.m1, frame.m2)[1]
          /\ game.p2.score = HistoryScore(game.history, 1)
                               + calculate_payoff(frame.m1, frame.m2)[2]

C10_Witness ==
    /\ frame.pc = "push"
    /\ frame.k = 1
    /\ strategies = <<"TitForTat", "AlwaysDefect">>
    /\ frame.hist1 = <<<<Cooperate, Defect>>>>
    /\ frame.m1 = Defect

(***************************************************************************)
(* C11  For every iteration count n >= 0, play() plays exactly n rounds:   *)
(* when it returns the history has length n and each strategy has been     *)
(* asked for exactly n moves; for n = 0 the scores are (0, 0), the history *)
(* is empty and no strategy has been called.                               *)
(***************************************************************************)
C11_ExactlyNRounds ==
    (frame.pc = "returned" /\ iterations >= 0) =>
        /\ Len(game.history) = iterations
        /\ frame.k = iterations
        /\ frame.calls0 = iterations
        /\ frame.calls1 = iterations
        /\ iterations = 0 =>
              /\ game.p1.score = 0 /\ game.p2.score = 0
              /\ game.history = <<>>

C11_Witness ==
    /\ frame.pc = "returned"
    /\ iterations = 3
    /\ Len(game.history) = 3
    /\ frame.calls0 = 3 /\ frame.calls1 = 3
    /\ strategies = <<"Random", "TwoTitsForTat">>

(***************************************************************************)
(* C12  A negative iteration count is a configuration error reported       *)
(* before any work is scheduled: no pairing is submitted to the pool and   *)
(* no per-pairing result is reported.                                      *)
(***************************************************************************)
C12_NegativeIterationsRejected ==
    iterations < 0 =>
        /\ submitted = 0
        /\ queue = <<>> /\ running = {}
        /\ channel = <<>> /\ scores = <<>>
        /\ stdout = <<>>

(***************************************************************************)
(* C13  For every n >= 1, TitForTat (slot 0) against AlwaysDefect (slot 1) *)
(* played for n rounds ends with scores (n - 1, n + 2): round 1 is         *)
(* [Cooperate, Defect] and every later round is [Defect, Defect].          *)
(***************************************************************************)
C13_TitForTatVsAlwaysDefect ==
    (/\ strategies = <<"TitForTat", "AlwaysDefect">>
     /\ frame.pc = "returned"
     /\ iterations >= 1) =>
        /\ game.p1.score = iterations - 1
        /\ game.p2.score = iterations + 2
        /\ Len(game.history) = iterations
        /\ game.history[1] = <<Cooperate, Defect>>
        /\ \A r \in 2..Len(game.history) : game.history[r] = <<Defect, Defect>>

C13_Witness ==
    /\ strategies = <<"TitForTat", "AlwaysDefect">>
    /\ frame.pc = "returned"
    /\ iterations = 3
    /\ game.p1.score = 2
    /\ game.p2.score = 5
    /\ game.history = <<<<Cooperate, Defect>>, <<Defect, Defect>>, <<Defect, Defect>>>>

(***************************************************************************)
(* One call of a strategy: strategy.play(&history, inx) on a history and a *)
(* player index chosen freely, as the strategy tests call it.              *)
(***************************************************************************)
MaxHistory == 3

Rounds == Move \X Move

Histories == UNION { [1..n -> Rounds] : n \in 0..MaxHistory }

StrategyInit ==
    /\ strategies \in [1..1 -> Kinds]
    /\ iterations = 0
    /\ num_threads = 1
    /\ pcMain = "test"
    /\ submitted = 0
    /\ queue = <<>>
    /\ threads = 0
    /\ running = {}
    /\ panicked = {}
    /\ channel = <<>>
    /\ scores = <<>>
    /\ stdout = <<>>
    /\ game = NoGame
    /\ \E h \in Histories, i \in {0, 1} :
          frame = [pc |-> "call", hist |-> h, inx |-> i, result |-> "none"]

\* strategy.play(&history, inx)
StrategyCall ==
    /\ frame.pc = "call"
    /\ \E r \in Strategy_play(strategies[1], frame.hist, frame.inx) :
          frame' = [frame EXCEPT !.pc = "called", !.result = r]
    /\ UNCHANGED <<game, inputVars, tournamentVars>>

StrategyNext == StrategyCall

StrategySpec == StrategyInit /\ [][StrategyNext]_vars

(***************************************************************************)
(* C14  For every history and player index in {0, 1}, TitForTat returns    *)
(* Cooperate on the empty history and otherwise exactly the move at slot   *)
(* 1 - playerIndex of the most recent round.                               *)
(***************************************************************************)
C14_TitForTatMirrorsLastRound ==
    (frame.pc = "called" /\ strategies[1] = "TitForTat") =>
        IF frame.hist = <<>>
        THEN frame.result = Cooperate
        ELSE frame.result = frame.hist[Len(frame.hist)][(1 - frame.inx) + 1]

C14_Witness ==
    /\ frame.pc = "called"
    /\ strategies[1] = "TitForTat"
    /\ frame.hist = <<<<Cooperate, Defect>>, <<Cooperate, Cooperate>>,
                      <<Defect, Cooperate>>>>
    /\ frame.inx = 1
    /\ frame.result = Defect

(***************************************************************************)
(* C15  For every history and player index in {0, 1}, TwoTitsForTat        *)
(* returns Defect if and only if the history has at least two rounds and   *)
(* the opponent played Defect in both of the two most recent rounds; in    *)
(* every other case it returns Cooperate.                                  *)
(***************************************************************************)
OpponentDefectedTwice(h, inx) ==
    /\ Len(h) >= 2
    /\ h[Len(h)][(1 - inx) + 1] = Defect
    /\ h[Len(h) - 1][(1 - inx) + 1] = Defect

\* C15: Defect exactly on a double defection, Cooperate otherwise.
C15_TwoTitsForTatNeedsTwoDefections ==
    (frame.pc = "called" /\ strategies[1] = "TwoTitsForTat") =>
        /\ frame.result \in Move
        /\ frame.result = Defect <=> OpponentDefectedTwice(frame.hist, frame.inx)

C15_Witness ==
    /\ frame.pc = "called"
    /\ strategies[1] = "TwoTitsForTat"
    /\ frame.hist = <<<<Cooperate, Cooperate>>, <<Defect, Cooperate>>,
                      <<Defect, Cooperate>>>>
    /\ frame.inx = 1
    /\ frame.result = Defect

(***************************************************************************)
(* C16  calculate_payoff matches the fixed table for all four move         *)
(* combinations and is symmetric: payoff(m2, m1) is payoff(m1, m2) with    *)
(* its two components swapped.                                             *)
(***************************************************************************)
PayoffTable ==
    { <<Cooperate, Cooperate, 2, 2>>, <<Cooperate, Defect, 0, 3>>,
      <<Defect, Cooperate, 3, 0>>, <<Defect, Defect, 1, 1>> }

\* C16: the payoffs play_round computed are the table's, and mirror.
C16_PayoffTableAndSymmetry ==
    frame.pc \in {"pay1", "pay2", "push"} =>
        /\ <<frame.m1, frame.m2, frame.p1_pay, frame.p2_pay>> \in PayoffTable
        /\ calculate_payoff(frame.m2, frame.m1) = <<frame.p2_pay, frame.p1_pay>>

C16_Witness ==
    /\ frame.pc = "pay1"
    /\ frame.m1 = Defect
    /\ frame.m2 = Cooperate
    /\ frame.p1_pay = 3
    /\ frame.p2_pay = 0

(***************************************************************************)
(* parse_strategies.  A &str is modelled as the sequence of its            *)
(* characters, so that split, trim and to_lowercase do their work.         *)
(***************************************************************************)
MaxTokens == 2

Whitespace == {" ", "\t"}

UpperCase ==
    <<"A", "B", "C", "D", "E", "F", "G", "H", "I", "J", "K", "L",
      "M", "N", "O", "P", "Q", "R", "S", "T", "U", "V", "W", "X",
      "Y", "Z">>

LowerCase ==
    <<"a", "b", "c", "d", "e", "f", "g", "h", "i", "j", "k", "l",
      "m", "n", "o", "p", "q", "r", "s", "t", "u", "v", "w", "x",
      "y", "z">>

\* char::to_lowercase on the letters of the alphabet above
LowerChar(c) ==
    IF \E i \in 1..Len(UpperCase) : UpperCase[i] = c
    THEN LowerCase[CHOOSE i \in 1..Len(UpperCase) : UpperCase[i] = c]
    ELSE c

\* str::to_lowercase
ToLowercase(s) == [i \in 1..Len(s) |-> LowerChar(s[i])]

\* Mutant of Trim: the token is matched untrimmed.
Trim_None(s) == s

\* str::trim: leading and trailing whitespace removed
Trim(s) ==
    LET keep == { i \in 1..Len(s) : s[i] \notin Whitespace }
    IN  IF keep = {}
        THEN <<>>
        ELSE SubSeq(s, CHOOSE i \in keep : \A j \in keep : i <= j,
                       CHOOSE i \in keep : \A j \in keep : j <= i)

\* str::split(','): the pieces between the separators, empty ones included
RECURSIVE Split(_, _)
Split(s, sep) ==
    LET at == { i \in 1..Len(s) : s[i] = sep }
    IN  IF at = {}
        THEN <<s>>
        ELSE LET first == CHOOSE i \in at : \A j \in at : i <= j
             IN  <<SubSeq(s, 1, first - 1)>>
                   \o Split(SubSeq(s, first + 1, Len(s)), sep)

\* The match of parse_strategies: the strategy a name selects, or "unknown".
MatchName(name) ==
    CASE name = <<>> -> "unknown"
      [] name = <<"a", "l", "w", "a", "y", "s", "-", "c", "o", "o", "p", "e",
              "r", "a", "t", "e">>
           -> "AlwaysCooperate"
      [] name = <<"a", "l", "w", "a", "y", "s", "-", "d", "e", "f", "e", "c",
              "t">>
           -> "AlwaysDefect"
      [] name = <<"t", "i", "t", "-", "f", "o", "r", "-", "t", "a", "t">>
           -> "TitForTat"
      [] name = <<"r", "a", "n", "d", "o", "m">>
           -> "Random"
      [] name = <<"t", "w", "o", "-", "t", "i", "t", "s", "-", "f", "o", "r",
              "-", "t", "a", "t">>
           -> "TwoTitsForTat"
      [] OTHER -> "unknown"

DefaultStrategies ==
    <<"AlwaysCooperate", "AlwaysDefect", "TitForTat", "Random", "TwoTitsForTat">>

\* The loop of parse_strategies over pieces[from..]: push or skip.
RECURSIVE ParseLoop(_, _, _)
ParseLoop(pieces, from, acc) ==
    IF from > Len(pieces)
    THEN acc
    ELSE LET kind == MatchName(ToLowercase(Trim(pieces[from])))
         IN  ParseLoop(pieces, from + 1,
                       IF kind = "unknown" THEN acc ELSE Append(acc, kind))

parse_strategies(strategy_str) ==
    LET parsed == ParseLoop(Split(strategy_str, ","), 1, <<>>)
    IN  IF parsed = <<>> THEN DefaultStrategies ELSE parsed

\* Spellings of one comma-separated token, each with the strategy it is to
\* select ("unknown": none).
Spellings ==
    { [text |-> <<"a", "l", "w", "a", "y", "s", "-", "c", "o", "o", "p", "e",
                 "r", "a", "t", "e">>,
       kind |-> "AlwaysCooperate"],
      [text |-> <<"a", "l", "w", "a", "y", "s", "-", "d", "e", "f", "e", "c",
                 "t">>,
       kind |-> "AlwaysDefect"],
      [text |-> <<"t", "i", "t", "-", "f", "o", "r", "-", "t", "a", "t">>,
       kind |-> "TitForTat"],
      [text |-> <<"r", "a", "n", "d", "o", "m">>,
       kind |-> "Random"],
      [text |-> <<"t", "w", "o", "-", "t", "i", "t", "s", "-", "f", "o", "r",
                 "-", "t", "a", "t">>,
       kind |-> "TwoTitsForTat"],
      [text |-> <<"A", "L", "W", "A", "Y", "S", "-", "C", "O", "O", "P", "E",
                 "R", "A", "T", "E">>,
       kind |-> "AlwaysCooperate"],
      [text |-> <<"A", "l", "w", "a", "y", "s", "-", "D", "e", "f", "e", "c",
                 "t">>,
       kind |-> "AlwaysDefect"],
      [text |-> <<" ", "t", "i", "t", "-", "f", "o", "r", "-", "t", "a", "t">>,
       kind |-> "TitForTat"],
      [text |-> <<"r", "a", "n", "d", "o", "m", " ", "\t">>,
       kind |-> "Random"],
      [text |-> <<" ", "T", "w", "o", "-", "T", "i", "t", "s", "-", "F", "o",
                 "r", "-", "T", "a", "t", " ">>,
       kind |-> "TwoTitsForTat"],
      [text |-> <<"i", "n", "v", "a", "l", "i", "d", "-", "s", "t", "r", "a",
                 "t", "e", "g", "y">>,
       kind |-> "unknown"],
      [text |-> <<>>,
       kind |-> "unknown"],
      [text |-> <<" ">>,
       kind |-> "unknown"],
      [text |-> <<"t", "i", "t", " ", "f", "o", "r", " ", "t", "a", "t">>,
       kind |-> "unknown"],
      [text |-> <<"r", "a", "n", "d", "o", "m", "l", "y">>,
       kind |-> "unknown"] }

TokenLists == UNION { [1..n -> Spellings] : n \in 1..MaxTokens }

\* The tokens' texts joined with commas: the --strategies argument.
RECURSIVE Join(_, _)
Join(tokens, from) ==
    IF from > Len(tokens)
    THEN <<>>
    ELSE IF from = Len(tokens)
         THEN tokens[from].text
         ELSE tokens[from].text \o <<",">> \o Join(tokens, from + 1)

ParseInit ==
    /\ strategies = <<>>
    /\ iterations = 0
    /\ num_threads = 1
    /\ pcMain = "test"
    /\ submitted = 0
    /\ queue = <<>>
    /\ threads = 0
    /\ running = {}
    /\ panicked = {}
    /\ channel = <<>>
    /\ scores = <<>>
    /\ stdout = <<>>
    /\ game = NoGame
    /\ \E tl \in TokenLists :
          frame = [pc |-> "parse", tokens |-> tl, input |-> Join(tl, 1)]

\* let strategies = parse_strategies(strat_str);
ParseCall ==
    /\ frame.pc = "parse"
    /\ strategies' = parse_strategies(frame.input)
    /\ frame' = [frame EXCEPT !.pc = "parsed"]
    /\ UNCHANGED <<iterations, num_threads, game, tournamentVars>>

ParseNext == ParseCall

ParseSpec == ParseInit /\ [][ParseNext]_vars

(***************************************************************************)
(* C17  parse_strategies returns, in input order and keeping duplicates,   *)
(* one strategy for each comma-separated token that is a known name after  *)
(* trimming and lower-casing, and skips every unknown token; if no token   *)
(* is known it returns the five default strategies in their order; its     *)
(* result is never empty.                                                  *)
(***************************************************************************)
KnownTokens(tl) == SelectSeq(tl, LAMBDA t : t.kind # "unknown")

ExpectedParse(tl) ==
    IF KnownTokens(tl) = <<>>
    THEN <<"AlwaysCooperate", "AlwaysDefect", "TitForTat", "Random",
           "TwoTitsForTat">>
    ELSE [i \in 1..Len(KnownTokens(tl)) |-> KnownTokens(tl)[i].kind]

\* C17: the parsed list is the known tokens' strategies, or the default.
C17_ParseStrategies ==
    frame.pc = "parsed" =>
        /\ strategies = ExpectedParse(frame.tokens)
        /\ strategies # <<>>

C17_Witness ==
    /\ frame.pc = "parsed"
    /\ Len(frame.tokens) = 2
    /\ frame.tokens[1].kind = "unknown"
    /\ frame.tokens[2].text # ToLowercase(frame.tokens[2].text)
    /\ frame.tokens[2].text # Trim(frame.tokens[2].text)
    /\ strategies = <<"TwoTitsForTat">>

(***************************************************************************)
(* C18  A worker's game runs to completion before its result is handed     *)
(* over: the tuple a job sends is the two players of a game whose loop     *)
(* `for _ in 0..iterations` has run all its rounds; every started game     *)
(* that has left the pool without failing has sent exactly one tuple, and  *)
(* no other game has sent any; the tuple main collects is the tuple that   *)
(* was sent.                                                               *)
(***************************************************************************)
\* The number of rounds of `for _ in 0..iterations`.
RoundsToPlay == IF iterations < 0 THEN 0 ELSE iterations

C18_OneTuplePerGame ==
    \A n \in 1..NumPairings :
        LET p == Pairing(n)
            sent == Cardinality(EntriesFor(channel \o scores, p.s1, p.s2))
            started == n <= submitted /\ \A k \in 1..Len(queue) : queue[k].id # n
            executing == \E j \in running : j.id = n
            failed == \E f \in panicked : f.id = n
        IN  sent = IF started /\ ~ executing /\ ~ failed THEN 1 ELSE 0

C18_SendAfterLastRound ==
    /\ \A j \in running :
          (Len(channel') = Len(channel) + 1 /\ \A o \in running' : o.id # j.id) =>
              /\ j.k = RoundsToPlay
              /\ Len(j.game.history) = RoundsToPlay
              /\ channel'[Len(channel')] = <<j.game.p1, j.game.p2>>
    /\ Len(scores') = Len(scores) + 1 =>
          /\ channel # <<>>
          /\ scores'[Len(scores')] = Head(channel)

\* C18: one tuple per completed game, sent after the last round.
C18_CompleteBeforeSend == [] C18_OneTuplePerGame /\ [][C18_SendAfterLastRound]_vars

C18_Witness ==
    /\ iterations = 1
    /\ N = 2
    /\ Len(channel) = 1
    /\ Len(scores) = 1
    /\ \E j \in running : j.k = 0
    /\ Len(queue) = 1

(***************************************************************************)
(* C19  Game-local state is never shared: a step in which the game of one  *)
(* job plays a round changes that game's two scores and its history (one   *)
(* round appended) and nothing else: the job's pairing, its players'       *)
(* strategies and its iteration count, every other executing job, the      *)
(* queued jobs, the failed jobs, the tuples in the channel, the collected  *)
(* results, the printed lines and the strategy list are unchanged.         *)
(***************************************************************************)
\* Job j plays a round in this step: it stays in the pool with k + 1.
IsRoundStepOf(j) ==
    \E o \in running' : o.id = j.id /\ o.k = j.k + 1

C19_RoundStepFrame ==
    \A j \in running :
        IsRoundStepOf(j) =>
            LET o == CHOOSE o \in running' : o.id = j.id
            IN  /\ running' \ {o} = running \ {j}
                /\ o.s1 = j.s1 /\ o.s2 = j.s2
                /\ o.game.p1.strategy = j.game.p1.strategy
                /\ o.game.p2.strategy = j.game.p2.strategy
                /\ o.game.iterations = j.game.iterations
                /\ Len(o.game.history) = Len(j.game.history) + 1
                /\ SubSeq(o.game.history, 1, Len(j.game.history)) = j.game.history
                /\ UNCHANGED <<queue, panicked, channel, scores, stdout,
                               strategies, iterations, num_threads>>

\* C19: a round step changes only its own game's scores and history.
C19_GameStateNotShared == [][C19_RoundStepFrame]_vars

C19_Witness ==
    /\ iterations = 1
    /\ N = 2
    /\ Len(scores) = 1
    /\ Len(queue) = 1
    /\ Cardinality(running) = 2
    /\ \E a \in running : \E b \in running :
          /\ a.k = 1 /\ Len(a.game.history) = 1 /\ a.game.p2.score = 3
          /\ b.k = 0 /\ b.game.history = <<>> /\ b.game.p1.score = 0

(***************************************************************************)
(* C20  When no strategy fails, the receiving end of the channel is open   *)
(* whenever a worker sends, so no send fails: while a job is unsubmitted,  *)
(* queued or executing, main is still submitting or receiving; no job and  *)
(* not main panics; every step that ends a job appends its tuple to the    *)
(* channel; sends and receives never exceed N * N and both are exactly     *)
(* N * N once main has stopped receiving.                                  *)
(***************************************************************************)
SendOutstanding ==
    submitted < NumPairings \/ queue # <<>> \/ running # {}

\* Tuples sent so far; tuples received so far.
Sends == Len(channel) + Len(scores)

Receives == Len(scores)

C20_ReceiverOpen ==
    NoFaulty =>
        /\ SendOutstanding => pcMain \in {"submit", "collect"}
        /\ panicked = {}
        /\ pcMain # "panicked"
        /\ Sends <= N * N /\ Receives <= N * N
        /\ Sends = submitted - Len(queue) - Cardinality(running)
        /\ pcMain \in {"print", "done"} => Sends = N * N /\ Receives = N * N

C20_SendSucceeds ==
    NoFaulty =>
        \A j \in running :
            (\A o \in running' : o.id # j.id) =>
                /\ channel' = Append(channel, <<j.game.p1, j.game.p2>>)
                /\ panicked' = panicked
                /\ pcMain' \in {"submit", "collect"}

\* C20: no send fails and main receives until the last tuple is in.
C20_SendNeverFails == [] C20_ReceiverOpen /\ [][C20_SendSucceeds]_vars

C20_Witness ==
    /\ NoFaulty
    /\ N = 2
    /\ pcMain = "collect"
    /\ Len(channel) = 2
    /\ Len(scores) = 1
    /\ Cardinality(running) = 1
    /\ queue = <<>>

(***************************************************************************)
(* One game with a large iteration count.  The history vector is kept as a *)
(* sequence of runs [round, count] (count equal rounds in a row), and the  *)
(* rounds before the last MaxTail ones are played in one step when both    *)
(* strategies return the same move in each of them (AlwaysCooperate and    *)
(* AlwaysDefect do; Random can).  frame.checks is the build's              *)
(* overflow-checks setting (on in a debug build, off in a release build).  *)
(***************************************************************************)
MaxTail == 2

\* --iterations is an i32: counts around the first overflowing round for a
\* payoff of 3 and of 2 per round, and the largest i32.
LargeIterationCounts ==
    {I32Max \div 3, I32Max \div 3 + 1, I32Max \div 2, I32Max \div 2 + 1, I32Max}

\* The strategies that do not read the history.
HistoryFreeKinds == {"AlwaysCooperate", "AlwaysDefect", "Random"}

\* self.score += p leaves the i32 range.
Player_pay_overflows(p, amount) == p.score > I32Max - amount

\* history.len() of a history kept as runs
RECURSIVE RunsLen(_)
RunsLen(runs) ==
    IF runs = <<>> THEN 0 ELSE runs[1].count + RunsLen(Tail(runs))

\* The last round of the history as a slice, for the strategies' hist.
LastRounds(runs) ==
    IF runs = <<>> THEN <<>> ELSE <<runs[Len(runs)].round>>

Min(a, b) == IF a <= b THEN a ELSE b

Max(a, b) == IF a >= b THEN a ELSE b

OverflowInit ==
    /\ strategies \in [1..2 -> HistoryFreeKinds]
    /\ iterations \in LargeIterationCounts
    /\ num_threads = 1
    /\ pcMain = "test"
    /\ submitted = 0
    /\ queue = <<>>
    /\ threads = 0
    /\ running = {}
    /\ panicked = {}
    /\ channel = <<>>
    /\ scores = <<>>
    /\ stdout = <<>>
    /\ game = Game_new(Player_new(1), Player_new(2), iterations)
    /\ \E c \in BOOLEAN :
          frame = [pc |-> "loop", k |-> 0, stop |-> MaxTail, checks |-> c,
                   overflowed |-> FALSE]

\* The first n iterations of play()'s loop, in each of which the strategies
\* return m1 and m2: n is all but the last MaxTail rounds, and at most the
\* number of rounds whose payoffs add up within the i32 range.
PlayManyRounds ==
    /\ frame.pc = "loop"
    /\ frame.k = 0
    /\ \E m1 \in Player_play(game.p1, <<>>, 0) \ {Panic} :
       \E m2 \in Player_play(game.p2, <<>>, 1) \ {Panic} :
          LET pay == calculate_payoff(m1, m2)
              n   == Min(game.iterations - MaxTail,
                         I32Max \div Max(pay[1], pay[2]))
          IN  /\ n > 0
              /\ game' = [game EXCEPT
                            !.p1.score = n * pay[1],
                            !.p2.score = n * pay[2],
                            !.history = <<[round |-> <<m1, m2>>, count |-> n]>>]
              /\ frame' = [frame EXCEPT !.k = n, !.stop = n + MaxTail]
    /\ UNCHANGED <<inputVars, tournamentVars>>

\* One iteration of play()'s loop: play_round returns.  A pay that leaves
\* the i32 range wraps around (overflow checks off).
LargeRound ==
    /\ frame.pc = "loop"
    /\ frame.k < game.iterations
    /\ frame.k < frame.stop
    /\ \E m1 \in Player_play(game.p1, LastRounds(game.history), 0) \ {Panic} :
       \E m2 \in Player_play(game.p2, LastRounds(game.history), 1) \ {Panic} :
          LET pay == calculate_payoff(m1, m2)
              over == \/ Player_pay_overflows(game.p1, pay[1])
                      \/ Player_pay_overflows(game.p2, pay[2])
          IN  /\ over => ~ frame.checks
              /\ game' = [game EXCEPT
                            !.p1 = Player_pay(game.p1, pay[1]),
                            !.p2 = Player_pay(game.p2, pay[2]),
                            !.history = Append(game.history,
                                          [round |-> <<m1, m2>>, count |-> 1])]
              /\ frame' = [frame EXCEPT !.k = frame.k + 1,
                                        !.overflowed = frame.overflowed \/ over]
    /\ UNCHANGED <<inputVars, tournamentVars>>

\* One iteration of play()'s loop in which a pay leaves the i32 range with
\* overflow checks on: "attempt to add with overflow", the thread panics.
LargeRoundPanics ==
    /\ frame.pc = "loop"
    /\ frame.k < game.iterations
    /\ frame.k < frame.stop
    /\ frame.checks
    /\ \E m1 \in Player_play(game.p1, LastRounds(game.history), 0) \ {Panic} :
       \E m2 \in Player_play(game.p2, LastRounds(game.history), 1) \ {Panic} :
          LET pay == calculate_payoff(m1, m2)
          IN  \/ Player_pay_overflows(game.p1, pay[1])
              \/ Player_pay_overflows(game.p2, pay[2])
    /\ frame' = [frame EXCEPT !.pc = "panicked", !.overflowed = TRUE]
    /\ UNCHANGED <<game, inputVars, tournamentVars>>

LargeReturn ==
    /\ frame.pc = "loop"
    /\ frame.k >= game.iterations
    /\ frame' = [frame EXCEPT !.pc = "returned"]
    /\ UNCHANGED <<game, inputVars, tournamentVars>>

OverflowNext ==
    \/ PlayManyRounds
    \/ LargeRound
    \/ LargeRoundPanics
    \/ LargeReturn

OverflowSpec == OverflowInit /\ [][OverflowNext]_vars

(***************************************************************************)
(* C21  For every i32 iteration count and every pair of strategies, each   *)
(* player's running score stays within the i32 range throughout the game:  *)
(* no Player::pay overflows (neither wrapping the score around nor         *)
(* panicking on the addition).                                             *)
(***************************************************************************)
C21_ScoreNeverOverflows ==
    /\ frame.pc # "panicked"
    /\ ~ frame.overflowed
    /\ game.p1.score >= 0
    /\ game.p2.score >= 0

(***************************************************************************)
(* C22  Between the rounds of any game, with k the history length: each    *)
(* player's score is between 0 and 3k, the sum of the two scores is        *)
(* between 2k and 4k, and each score is the sum over the k recorded rounds *)
(* of that player's table payoff for the recorded moves.  (The comparisons *)
(* are written with quotients so that no term leaves the i32 range; a sum  *)
(* of payoffs beyond the range is reported as -1, which no i32 score that  *)
(* tracks the history can equal.)                                          *)
(***************************************************************************)
\* The sum of player slot's table payoffs over the recorded rounds, or -1
\* when it is beyond I32Max.
RECURSIVE PayoffSum(_, _)
PayoffSum(runs, slot) ==
    IF runs = <<>>
    THEN 0
    ELSE LET rest == PayoffSum(Tail(runs), slot)
             pay  == calculate_payoff(runs[1].round[1], runs[1].round[2])[slot]
         IN  IF rest = 0 - 1 \/ (pay > 0 /\ runs[1].count > I32Max \div pay)
             THEN 0 - 1
             ELSE IF rest > I32Max - runs[1].count * pay
                  THEN 0 - 1
                  ELSE rest + runs[1].count * pay

\* floor((a + b) / 2) and ceiling((a + b) / 2)
HalfSumFloor(a, b) == (a \div 2) + (b \div 2) + (((a % 2) + (b % 2)) \div 2)

HalfSumCeil(a, b) == HalfSumFloor(a, b) + (((a % 2) + (b % 2)) % 2)

\* ceiling(a / d)
CeilDiv(a, d) == (a \div d) + (IF a % d = 0 THEN 0 ELSE 1)

\* C22: scores stay within the bounds of, and equal to, the recorded rounds.
C22_ScoresTrackHistory ==
    frame.pc \in {"loop", "returned"} =>
        LET k  == RunsLen(game.history)
            s1 == game.p1.score
            s2 == game.p2.score
        IN  /\ k = frame.k
            /\ s1 >= 0 /\ CeilDiv(s1, 3) <= k
            /\ s2 >= 0 /\ CeilDiv(s2, 3) <= k
            /\ k <= HalfSumFloor(s1, s2)
            /\ CeilDiv(HalfSumCeil(s1, s2), 2) <= k
            /\ s1 = PayoffSum(game.history, 1)
            /\ s2 = PayoffSum(game.history, 2)

=============================================================================
